---- MODULE Spec2Model ----
(***************************************************************************)
(* Multi-provider JSON-RPC client of src/rpc_client/mod.rs: the dispatch   *)
(* policies (sequential_call_until_ok, parallel_call), the MultiCallResults*)
(* container and its reducers (all_ok, reduce_with_equality,               *)
(* reduce_with_strict_majority_by_key).                                    *)
(*                                                                         *)
(* Two specifications share the variables:                                 *)
(*   Spec        the client: construction, dispatch, join, reduction;      *)
(*   SpecReduce  the reducers as pure functions of a ballot drawn from     *)
(*               bounded sets.                                             *)
(***************************************************************************)
EXTENDS Integers, Sequences, FiniteSets, TLC

\* ------------------------------------------------------------------------
\* Bounds
\* ------------------------------------------------------------------------
\* Largest ballot handed to the reducers in SpecReduce (providers 1..n).
MaxProviders == 5
\* Longest provider list handed to EthRpcClient::new in Spec.
MaxListLen == 3

\* ------------------------------------------------------------------------
\* Option / Result / panic encodings
\* ------------------------------------------------------------------------
None == [some |-> FALSE]
Some(x) == [some |-> TRUE, val |-> x]

Ok(v) == [tag |-> "Ok", value |-> v]
Err(e) == [tag |-> "Err", error |-> e]

Panic(msg) == [tag |-> "Panic", msg |-> msg]
IsPanic(x) == x.tag = "Panic"

\* ------------------------------------------------------------------------
\* Data
\* ------------------------------------------------------------------------
\* RpcService: totally ordered provider identity (derive(Ord)); integers.
ClientProviders == {1, 2, 3}

\* RpcError variants that a single call can return.
JsonRpcError(code, message) ==
    [variant |-> "JsonRpcError", code |-> code, message |-> message]
HttpOutcallError(kind, detail) ==
    [variant |-> "HttpOutcallError", kind |-> kind, detail |-> detail]

\* FeeHistory-like payload: a projected key and the rest of the payload.
Value(oldest_block, base_fee) ==
    [oldest_block |-> oldest_block, base_fee |-> base_fee]

ReduceValues ==
    {Value(100, 1), Value(100, 2), Value(101, 1), Value(102, 1)}
ReduceErrors ==
    {JsonRpcError(-32000, "x"), JsonRpcError(-32000, "y"),
     HttpOutcallError("Timeout", "a"), HttpOutcallError("Timeout", "b")}
ReduceOutcomes == {Ok(v) : v \in ReduceValues} \cup {Err(e) : e \in ReduceErrors}

ClientValues == {Value(100, 1), Value(100, 2), Value(101, 1)}
ClientErrors == {JsonRpcError(-32000, "x"), HttpOutcallError("Timeout", "a")}
ClientOutcomes == {Ok(v) : v \in ClientValues} \cup {Err(e) : e \in ClientErrors}

\* ------------------------------------------------------------------------
\* BTreeMap helpers
\* ------------------------------------------------------------------------
Max(S) == CHOOSE x \in S : \A y \in S : y <= x
Min(S) == CHOOSE x \in S : \A y \in S : x <= y

EmptyMap == [x \in {} |-> x]

\* BTreeMap::insert
Insert(m, k, v) == [x \in (DOMAIN m) \cup {k} |-> IF x = k THEN v ELSE m[x]]

\* BTreeMap iteration order: ascending keys.
RECURSIVE Ascending(_)
Ascending(S) == IF S = {} THEN <<>> ELSE <<Min(S)>> \o Ascending(S \ {Min(S)})

\* BTreeMap::into_iter: the (key, value) pairs in ascending key order.
IntoIter(m) == LET ks == Ascending(DOMAIN m) IN [i \in DOMAIN ks |-> <<ks[i], m[ks[i]]>>]

\* BTreeMap::from_iter: a later pair overwrites an earlier one with the same key.
BTreeMapFromIter(iter) ==
    [p \in {iter[i][1] : i \in DOMAIN iter} |->
        iter[Max({i \in DOMAIN iter : iter[i][1] = p})][2]]

\* The filter comparing only the projected key of the values.
RECURSIVE filter_differs_by_key(_, _)
filter_differs_by_key(iter, base_result) ==
    IF iter = <<>> THEN <<>>
    ELSE IF Head(iter)[2].oldest_block # base_result.oldest_block
         THEN <<Head(iter)>> \o filter_differs_by_key(Tail(iter), base_result)
         ELSE filter_differs_by_key(Tail(iter), base_result)

\* results.filter(|(_provider, result)| result != &base_result)
RECURSIVE filter_differs(_, _)
filter_differs(iter, base_result) ==
    IF iter = <<>> THEN <<>>
    ELSE IF Head(iter)[2] # base_result
         THEN <<Head(iter)>> \o filter_differs(Tail(iter), base_result)
         ELSE filter_differs(Tail(iter), base_result)

\* .map(|(provider, result)| (provider, Ok(result)))
MapOk(iter) == [i \in DOMAIN iter |-> <<iter[i][1], Ok(iter[i][2])>>]

\* ------------------------------------------------------------------------
\* MultiCallResults
\* ------------------------------------------------------------------------
MultiCallResults(results) == [tag |-> "MultiCallResults", results |-> results]

from_non_empty_iter(iter) ==
    LET results == BTreeMapFromIter(iter)
    IN  IF DOMAIN results = {}
        THEN Panic("BUG: MultiCallResults cannot be empty!")
        ELSE MultiCallResults(results)

ConsistentError(e) == [tag |-> "ConsistentError", error |-> e]
InconsistentResults(mcr) == [tag |-> "InconsistentResults", results |-> mcr]

\* MultiCallError::InconsistentResults(MultiCallResults::from_non_empty_iter(..)):
\* a panic inside the constructor unwinds through the reducer.
ErrInconsistentFromIter(iter) ==
    LET mcr == from_non_empty_iter(iter)
    IN  IF IsPanic(mcr) THEN mcr ELSE Err(InconsistentResults(mcr))

\* Consistency of two error outcomes (eth_rpc::are_errors_consistent).
are_errors_consistent(left, right) ==
    LET l == left.error
        r == right.error
    IN  /\ l.variant = r.variant
        /\ IF l.variant = "JsonRpcError"
           THEN l.code = r.code /\ l.message = r.message
           ELSE l.kind = r.kind

\* The for loop of all_ok over self.results.iter().
RECURSIVE all_ok_loop(_, _, _, _)
all_ok_loop(self, keys, has_ok, first_error) ==
    IF keys = <<>>
    THEN [returned |-> FALSE, has_ok |-> has_ok, first_error |-> first_error]
    ELSE LET provider == Head(keys)
             result == self.results[provider]
         IN  IF result.tag = "Ok"
             THEN all_ok_loop(self, Tail(keys), TRUE, first_error)
             ELSE IF ~first_error.some
                  THEN all_ok_loop(self, Tail(keys), has_ok, Some(<<provider, result>>))
                  ELSE IF ~are_errors_consistent(first_error.val[2], result)
                       THEN [returned |-> TRUE, has_ok |-> has_ok,
                             first_error |-> first_error]
                       ELSE all_ok_loop(self, Tail(keys), has_ok, first_error)

\* all_ok without the has_ok test of its final match.
all_ok_ignoring_ok(self) ==
    LET loop == all_ok_loop(self, Ascending(DOMAIN self.results), FALSE, None)
    IN  IF loop.returned
        THEN Err(InconsistentResults(self))
        ELSE IF ~loop.first_error.some
             THEN Ok([p \in DOMAIN self.results |-> self.results[p].value])
             ELSE Err(ConsistentError(loop.first_error.val[2].error))

\* all_ok reporting the error of the last provider instead of the first.
all_ok_last_error(self) ==
    LET loop == all_ok_loop(self, Ascending(DOMAIN self.results), FALSE, None)
    IN  IF loop.returned
        THEN Err(InconsistentResults(self))
        ELSE IF ~loop.first_error.some
             THEN Ok([p \in DOMAIN self.results |-> self.results[p].value])
             ELSE IF loop.has_ok
                  THEN Err(InconsistentResults(self))
                  ELSE Err(ConsistentError(
                           self.results[Max(DOMAIN self.results)].error))

all_ok(self) ==
    LET loop == all_ok_loop(self, Ascending(DOMAIN self.results), FALSE, None)
    IN  IF loop.returned
        THEN Err(InconsistentResults(self))
        ELSE IF ~loop.first_error.some
             THEN IF \E p \in DOMAIN self.results : self.results[p].tag # "Ok"
                  THEN Panic("BUG: all results should be ok")
                  ELSE Ok([p \in DOMAIN self.results |-> self.results[p].value])
             ELSE IF loop.first_error.val[2].tag = "Err"
                  THEN IF loop.has_ok
                       THEN Err(InconsistentResults(self))
                       ELSE Err(ConsistentError(loop.first_error.val[2].error))
                  ELSE Panic("BUG: first_error should be an error type")

\* reduce_with_equality that does not push the baseline onto the dissenters.
reduce_with_equality_without_base(self) ==
    LET all == all_ok(self)
    IN  IF all.tag # "Ok" THEN all
        ELSE LET results == IntoIter(all.value)
                 base_result == Head(results)[2]
                 inconsistent_results == filter_differs(Tail(results), base_result)
             IN  IF inconsistent_results # <<>>
                 THEN ErrInconsistentFromIter(MapOk(inconsistent_results))
                 ELSE Ok(base_result)

\* reduce_with_equality that reports the whole ballot on any dissent.
reduce_with_equality_whole_ballot(self) ==
    LET all == all_ok(self)
    IN  IF all.tag # "Ok" THEN all
        ELSE LET results == IntoIter(all.value)
                 base_result == Head(results)[2]
                 inconsistent_results == filter_differs(Tail(results), base_result)
             IN  IF inconsistent_results # <<>>
                 THEN ErrInconsistentFromIter(MapOk(results))
                 ELSE Ok(base_result)

reduce_with_equality(self) ==
    LET all == all_ok(self)
    IN  IF all.tag # "Ok" THEN all
        ELSE LET results == IntoIter(all.value)
             IN  IF results = <<>>
                 THEN Panic("BUG: MultiCallResults is guaranteed to be non-empty")
                 ELSE LET base_node_provider == Head(results)[1]
                          base_result == Head(results)[2]
                          inconsistent_results ==
                              filter_differs(Tail(results), base_result)
                      IN  IF inconsistent_results # <<>>
                          THEN ErrInconsistentFromIter(MapOk(
                                   Append(inconsistent_results,
                                          <<base_node_provider, base_result>>)))
                          ELSE Ok(base_result)

\* The projection used by eth_fee_history.
extractor(fee_history) == fee_history.oldest_block

\* The grouping loop without the comparison of values inside a group.
RECURSIVE votes_loop_unchecked(_, _, _)
votes_loop_unchecked(oks, keys, votes_by_key) ==
    IF keys = <<>>
    THEN [returned |-> FALSE, votes_by_key |-> votes_by_key]
    ELSE LET provider == Head(keys)
             result == oks[provider]
             key == extractor(result)
             votes_for_same_key ==
                 IF key \in DOMAIN votes_by_key THEN votes_by_key[key] ELSE EmptyMap
         IN  votes_loop_unchecked(oks, Tail(keys),
                 Insert(votes_by_key, key, Insert(votes_for_same_key, provider, result)))

\* The grouping loop of reduce_with_strict_majority_by_key.
RECURSIVE votes_loop(_, _, _)
votes_loop(oks, keys, votes_by_key) ==
    IF keys = <<>>
    THEN [returned |-> FALSE, votes_by_key |-> votes_by_key]
    ELSE LET provider == Head(keys)
             result == oks[provider]
             key == extractor(result)
         IN  IF key \in DOMAIN votes_by_key
             THEN LET votes_for_same_key == votes_by_key[key]
                  IN  IF DOMAIN votes_for_same_key = {}
                      THEN [returned |-> TRUE,
                            error |-> Panic("BUG: results_with_same_key is non-empty")]
                      ELSE LET other_result ==
                                   votes_for_same_key[Max(DOMAIN votes_for_same_key)]
                           IN  IF result # other_result
                               THEN [returned |-> TRUE,
                                     error |-> ErrInconsistentFromIter(MapOk(
                                         Append(IntoIter(votes_for_same_key),
                                                <<provider, result>>)))]
                               ELSE votes_loop(oks, Tail(keys),
                                        Insert(votes_by_key, key,
                                            Insert(votes_for_same_key, provider, result)))
             ELSE votes_loop(oks, Tail(keys),
                      Insert(votes_by_key, key, Insert(EmptyMap, provider, result)))

\* Vec::from_iter(votes_by_key) followed by sort_unstable_by on ballot length:
\* every arrangement of the groups that is ascending by size (the order of
\* groups of equal size is not specified by an unstable sort).
sort_unstable_by_len(votes_by_key) ==
    LET n == Cardinality(DOMAIN votes_by_key)
        Perms == {f \in [1..n -> DOMAIN votes_by_key] :
                     \A i, j \in 1..n : i # j => f[i] # f[j]}
        Size(k) == Cardinality(DOMAIN votes_by_key[k])
    IN  {[i \in 1..n |-> <<f[i], votes_by_key[f[i]]>>] :
            f \in {g \in Perms : \A i, j \in 1..n : i < j => Size(g[i]) <= Size(g[j])}}

\* BTreeMap::pop_last(..).1
pop_last_value(m) == m[Max(DOMAIN m)]

\* The match on tally.len() with >= in place of > between the two largest.
tally_result_plurality(tally) ==
    IF Len(tally) = 1
    THEN Ok(pop_last_value(tally[1][2]))
    ELSE LET first == tally[Len(tally)]
             second == tally[Len(tally) - 1]
         IN  IF Cardinality(DOMAIN first[2]) >= Cardinality(DOMAIN second[2])
             THEN Ok(pop_last_value(first[2]))
             ELSE ErrInconsistentFromIter(MapOk(IntoIter(first[2]) \o IntoIter(second[2])))

\* The match on tally.len() of reduce_with_strict_majority_by_key.
tally_result(tally) ==
    IF Len(tally) = 0 THEN Panic("BUG: tally should be non-empty")
    ELSE IF Len(tally) = 1
    THEN IF DOMAIN tally[1][2] = {} THEN Panic("BUG: tally is non-empty")
         ELSE Ok(pop_last_value(tally[1][2]))
    ELSE LET first == tally[Len(tally)]
             second == tally[Len(tally) - 1]
         IN  IF Cardinality(DOMAIN first[2]) > Cardinality(DOMAIN second[2])
             THEN Ok(pop_last_value(first[2]))
             ELSE ErrInconsistentFromIter(MapOk(IntoIter(first[2]) \o IntoIter(second[2])))

\* The set of results reduce_with_strict_majority_by_key can return on self.
reduce_with_strict_majority_by_key(self) ==
    LET all == all_ok(self)
    IN  IF all.tag # "Ok" THEN {all}
        ELSE LET loop == votes_loop(all.value, Ascending(DOMAIN all.value), EmptyMap)
             IN  IF loop.returned THEN {loop.error}
                 ELSE {tally_result(tally) : tally \in sort_unstable_by_len(loop.votes_by_key)}

\* ------------------------------------------------------------------------
\* EthRpcClient
\* ------------------------------------------------------------------------
ProviderNotFound == [variant |-> "ProviderError", kind |-> "ProviderNotFound"]

\* DEFAULT_*_SERVICES: three providers per chain family.
DEFAULT_SERVICES == <<1, 2, 3>>

\* The provider list EthRpcClient::new computes from its source
\* (services.unwrap_or_else(default)), in the order given by the caller.
source_providers(services) ==
    IF services.some THEN services.val ELSE DEFAULT_SERVICES

\* The public operations, by dispatch policy and reducer.
Methods == {"eth_get_logs", "eth_fee_history", "eth_send_raw_transaction",
            "eth_get_transaction_count"}
ParallelMethods == Methods \ {"eth_send_raw_transaction"}

\* The match keeping the first error instead of the last.
sequential_match_first_error(call_result, last_result) ==
    IF call_result.tag = "Ok"
    THEN [return |-> Some(Ok(call_result.value)), last_result |-> last_result]
    ELSE IF last_result.some
         THEN [return |-> None, last_result |-> last_result]
         ELSE [return |-> None, last_result |-> Some(Err(call_result.error))]

\* The match on the result of one call in sequential_call_until_ok.
sequential_match(call_result, last_result) ==
    IF call_result.tag = "Ok"
    THEN [return |-> Some(Ok(call_result.value)), last_result |-> last_result]
    ELSE IF call_result.error.variant = "JsonRpcError"
         THEN [return |-> None,
               last_result |-> Some(Err(JsonRpcError(call_result.error.code,
                                                     call_result.error.message)))]
         ELSE [return |-> None, last_result |-> Some(Err(call_result.error))]

\* The zip pairing the providers with the results in reverse.
zip_reversed(ps, results) ==
    [i \in 1..Len(ps) |-> <<ps[i], results[Len(results) + 1 - i]>>]

\* The zip that skips the first provider.
zip_skip_first(ps, results) ==
    [i \in 1..(Len(ps) - 1) |-> <<ps[i + 1], results[i]>>]

\* providers.iter().cloned().zip(results.into_iter())
zip(ps, results) ==
    LET n == IF Len(ps) < Len(results) THEN Len(ps) ELSE Len(results)
    IN  [i \in 1..n |-> <<ps[i], results[i]>>]

\* ------------------------------------------------------------------------
\* State
\* ------------------------------------------------------------------------
VARIABLES
    pc,           \* position of the query
    source,       \* the services handed to EthRpcClient::new
    method,       \* the public operation invoked
    providers,    \* EthRpcClient.providers
    idx,          \* sequential_call_until_ok: index of the loop in providers
    last_result,  \* sequential_call_until_ok: last_result
    calls,        \* history: indices of providers in the order their call started
    returned,     \* history: what the sequential calls returned, in order
    fut,          \* parallel_call: per index, None while pending, Some(outcome) after
    out_of_order, \* history: some call completed before one submitted earlier
    ballot,       \* the MultiCallResults under reduction (None before it exists)
    reducer,      \* the reducer that produced result
    result        \* the value returned to the caller (None before it returns)

vars == <<pc, source, method, providers, idx, last_result, calls, returned, fut,
          out_of_order, ballot, reducer, result>>

clientVars == <<source, method, providers, idx, last_result, calls, returned, fut,
                out_of_order>>

\* ------------------------------------------------------------------------
\* Spec: the client
\* ------------------------------------------------------------------------
Sources ==
    {None} \cup {Some(l) : l \in UNION {[1..n -> ClientProviders] : n \in 0..MaxListLen}}

Init ==
    /\ pc = "new"
    /\ source \in Sources
    /\ method \in Methods
    /\ providers = <<>>
    /\ idx = 0
    /\ last_result = None
    /\ calls = <<>>
    /\ returned = <<>>
    /\ fut = <<>>
    /\ out_of_order = FALSE
    /\ ballot = None
    /\ reducer = "none"
    /\ result = None

\* EthRpcClient::new without the providers.is_empty() test.
New_unchecked ==
    /\ pc = "new"
    /\ providers' = source_providers(source)
    /\ pc' = "ready"
    /\ UNCHANGED <<source, method, idx, last_result, calls, returned, fut,
                   out_of_order, ballot, reducer, result>>

\* EthRpcClient::new
New ==
    /\ pc = "new"
    /\ LET ps == source_providers(source)
       IN  IF ps = <<>>
           THEN /\ result' = Some(Err(ProviderNotFound))
                /\ pc' = "done"
                /\ UNCHANGED providers
           ELSE /\ providers' = ps
                /\ pc' = "ready"
                /\ UNCHANGED result
    /\ UNCHANGED <<source, method, idx, last_result, calls, returned, fut,
                   out_of_order, ballot, reducer>>

\* sequential_call_until_ok: one loop iteration up to the await of eth_rpc::call
SequentialCall ==
    /\ method = "eth_send_raw_transaction"
    /\ pc \in {"ready", "seq_loop"}
    /\ idx < Len(providers)
    /\ idx' = idx + 1
    /\ calls' = Append(calls, idx + 1)
    /\ pc' = "seq_await"
    /\ UNCHANGED <<source, method, providers, last_result, returned, fut,
                   out_of_order, ballot, reducer, result>>

\* sequential_call_until_ok: the call returns and its result is matched
SequentialReturn ==
    /\ pc = "seq_await"
    /\ \E call_result \in ClientOutcomes :
         LET m == sequential_match(call_result, last_result)
         IN  /\ returned' = Append(returned, call_result)
             /\ last_result' = m.last_result
             /\ IF m.return.some
                THEN result' = m.return /\ pc' = "done"
                ELSE UNCHANGED result /\ pc' = "seq_loop"
    /\ UNCHANGED <<source, method, providers, idx, calls, fut, out_of_order,
                   ballot, reducer>>

\* sequential_call_until_ok: the loop is exhausted
SequentialExhausted ==
    /\ method = "eth_send_raw_transaction"
    /\ pc \in {"ready", "seq_loop"}
    /\ idx >= Len(providers)
    /\ result' = IF last_result.some THEN last_result
                 ELSE Some(Panic("BUG: No providers in RPC client"))
    /\ pc' = "done"
    /\ UNCHANGED <<source, method, providers, idx, last_result, calls, returned,
                   fut, out_of_order, ballot, reducer>>

\* parallel_call: one future per provider, all polled by join_all
ParallelCall ==
    /\ method \in ParallelMethods
    /\ pc = "ready"
    /\ fut' = [i \in 1..Len(providers) |-> None]
    /\ calls' = [i \in 1..Len(providers) |-> i]
    /\ pc' = "join"
    /\ UNCHANGED <<source, method, providers, idx, last_result, returned,
                   out_of_order, ballot, reducer, result>>

\* one pending call completes
ParallelComplete ==
    /\ pc = "join"
    /\ \E i \in DOMAIN fut :
         /\ ~fut[i].some
         /\ \E call_result \in ClientOutcomes :
              fut' = [fut EXCEPT ![i] = Some(call_result)]
         /\ out_of_order' = (out_of_order \/ \E j \in 1..(i - 1) : ~fut[j].some)
    /\ UNCHANGED <<pc, source, method, providers, idx, last_result, calls,
                   returned, ballot, reducer, result>>

\* join_all is ready: every future has completed
Joined == \A i \in DOMAIN fut : fut[i].some

\* the MultiCallResults parallel_call returns once join_all is ready
parallel_call_results ==
    from_non_empty_iter(zip(providers, [i \in DOMAIN fut |-> fut[i].val]))

\* eth_get_logs (and the other operations bound to reduce_with_equality)
EthGetLogsReturn ==
    /\ method = "eth_get_logs"
    /\ pc = "join"
    /\ Joined
    /\ LET results == parallel_call_results
       IN  IF IsPanic(results)
           THEN result' = Some(results) /\ UNCHANGED ballot
           ELSE /\ ballot' = Some(results)
                /\ result' = Some(reduce_with_equality(results))
    /\ reducer' = "reduce_with_equality"
    /\ pc' = "done"
    /\ UNCHANGED clientVars

\* eth_fee_history
EthFeeHistoryReturn ==
    /\ method = "eth_fee_history"
    /\ pc = "join"
    /\ Joined
    /\ LET results == parallel_call_results
       IN  IF IsPanic(results)
           THEN result' = Some(results) /\ UNCHANGED ballot
           ELSE /\ ballot' = Some(results)
                /\ \E r \in reduce_with_strict_majority_by_key(results) :
                     result' = Some(r)
    /\ reducer' = "reduce_with_strict_majority_by_key"
    /\ pc' = "done"
    /\ UNCHANGED clientVars

\* eth_get_transaction_count: the raw MultiCallResults
EthGetTransactionCountReturn ==
    /\ method = "eth_get_transaction_count"
    /\ pc = "join"
    /\ Joined
    /\ LET results == parallel_call_results
       IN  IF IsPanic(results)
           THEN result' = Some(results) /\ UNCHANGED ballot
           ELSE ballot' = Some(results) /\ result' = Some(results)
    /\ pc' = "done"
    /\ UNCHANGED <<clientVars, reducer>>

Next ==
    \/ New
    \/ SequentialCall
    \/ SequentialReturn
    \/ SequentialExhausted
    \/ ParallelCall
    \/ ParallelComplete
    \/ EthGetLogsReturn
    \/ EthFeeHistoryReturn
    \/ EthGetTransactionCountReturn

Spec == Init /\ [][Next]_vars

\* ------------------------------------------------------------------------
\* SpecReduce: the reducers on every bounded ballot
\* ------------------------------------------------------------------------
InitReduce ==
    /\ pc = "reduce"
    /\ source = None
    /\ method = "none"
    /\ providers = <<>>
    /\ idx = 0
    /\ last_result = None
    /\ calls = <<>>
    /\ returned = <<>>
    /\ fut = <<>>
    /\ out_of_order = FALSE
    /\ \E n \in 1..MaxProviders :
         \E f \in [1..n -> ReduceOutcomes] : ballot = Some(MultiCallResults(f))
    /\ reducer = "none"
    /\ result = None

ApplyAllOk ==
    /\ pc = "reduce"
    /\ result' = Some(all_ok(ballot.val))
    /\ reducer' = "all_ok"
    /\ pc' = "done"
    /\ UNCHANGED <<ballot, clientVars>>

ApplyReduceWithEquality ==
    /\ pc = "reduce"
    /\ result' = Some(reduce_with_equality(ballot.val))
    /\ reducer' = "reduce_with_equality"
    /\ pc' = "done"
    /\ UNCHANGED <<ballot, clientVars>>

ApplyReduceWithStrictMajorityByKey ==
    /\ pc = "reduce"
    /\ \E r \in reduce_with_strict_majority_by_key(ballot.val) : result' = Some(r)
    /\ reducer' = "reduce_with_strict_majority_by_key"
    /\ pc' = "done"
    /\ UNCHANGED <<ballot, clientVars>>

NextReduce ==
    \/ ApplyAllOk
    \/ ApplyReduceWithEquality
    \/ ApplyReduceWithStrictMajorityByKey

SpecReduce == InitReduce /\ [][NextReduce]_vars

\* ------------------------------------------------------------------------
\* Vocabulary of the properties
\* ------------------------------------------------------------------------
OkProviders(b) == {p \in DOMAIN b.results : b.results[p].tag = "Ok"}
ErrProviders(b) == {p \in DOMAIN b.results : b.results[p].tag = "Err"}
AllOkBallot(b) == ErrProviders(b) = {}
AllErrBallot(b) == OkProviders(b) = {}
Mixed(b) == OkProviders(b) # {} /\ ErrProviders(b) # {}

Reduced(r) == pc = "done" /\ ballot.some /\ result.some /\ reducer = r
ReducedAny == pc = "done" /\ ballot.some /\ result.some /\ reducer # "none"

IsInconsistent(r) == r.tag = "Err" /\ r.error.tag = "InconsistentResults"
IsConsistentError(r) == r.tag = "Err" /\ r.error.tag = "ConsistentError"
Payload(r) == r.error.results.results

\* providers of an all-ok ballot whose value projects to key k
KeyGroup(b, k) == {p \in DOMAIN b.results : b.results[p].value.oldest_block = k}
KeysOf(b) == {b.results[p].value.oldest_block : p \in DOMAIN b.results}
\* values sharing a projected key are equal
KeyedUnambiguously(b) ==
    \A p, q \in DOMAIN b.results :
        b.results[p].value.oldest_block = b.results[q].value.oldest_block
            => b.results[p] = b.results[q]
StrictlyLargest(b, k) ==
    \A k2 \in KeysOf(b) \ {k} :
        Cardinality(KeyGroup(b, k)) > Cardinality(KeyGroup(b, k2))

\* ------------------------------------------------------------------------
\* Properties
\* ------------------------------------------------------------------------

\* C1: a ballot with at least one ok outcome and at least one error outcome is
\* reduced, by all_ok and by both reducers built on it, to InconsistentResults
\* carrying the original ballot unchanged.
C1_MixedIsInconsistent ==
    (ReducedAny /\ Mixed(ballot.val))
        => result.val = Err(InconsistentResults(ballot.val))

C1_Witness ==
    /\ Reduced("reduce_with_strict_majority_by_key")
    /\ Mixed(ballot.val)
    /\ \A p, q \in ErrProviders(ballot.val) : ballot.val.results[p] = ballot.val.results[q]
    /\ Cardinality(OkProviders(ballot.val)) >= 2
    /\ IsInconsistent(result.val)

\* C2: reduce_with_equality returns an ok value exactly when the ballot has no
\* error outcome and all its values are pairwise equal, and the value returned
\* is then the value of every provider of the ballot.
C2_EqualityOkIff ==
    Reduced("reduce_with_equality") =>
        /\ result.val.tag = "Ok" <=>
             /\ AllOkBallot(ballot.val)
             /\ \A p, q \in DOMAIN ballot.val.results :
                    ballot.val.results[p] = ballot.val.results[q]
        /\ result.val.tag = "Ok" =>
             \A p \in DOMAIN ballot.val.results :
                 ballot.val.results[p] = Ok(result.val.value)

C2_Witness ==
    /\ Reduced("reduce_with_equality")
    /\ Cardinality(DOMAIN ballot.val.results) >= 3
    /\ result.val.tag = "Ok"

\* C3: on an all-ok ballot whose values sharing a key are equal,
\* reduce_with_strict_majority_by_key returns ok(v) exactly when the group of
\* key(v) is strictly larger than every other group; otherwise (the two largest
\* groups have the same size) it returns InconsistentResults.
C3_StrictMajority ==
    (/\ Reduced("reduce_with_strict_majority_by_key")
     /\ AllOkBallot(ballot.val)
     /\ KeyedUnambiguously(ballot.val))
        => /\ result.val.tag = "Ok" <=>
                \E k \in KeysOf(ballot.val) : StrictlyLargest(ballot.val, k)
           /\ result.val.tag = "Ok" =>
                /\ StrictlyLargest(ballot.val, result.val.value.oldest_block)
                /\ \E p \in DOMAIN ballot.val.results :
                       ballot.val.results[p] = Ok(result.val.value)
           /\ result.val.tag # "Ok" => IsInconsistent(result.val)

\* a 3-vs-2 vote passes
C3_Witness ==
    /\ Reduced("reduce_with_strict_majority_by_key")
    /\ AllOkBallot(ballot.val)
    /\ KeyedUnambiguously(ballot.val)
    /\ Cardinality(KeyGroup(ballot.val, 100)) = 3
    /\ Cardinality(KeyGroup(ballot.val, 101)) = 2
    /\ result.val.tag = "Ok"
    /\ result.val.value.oldest_block = 100

\* C4: all_ok returns ConsistentError(e) exactly when every outcome is an error
\* consistent with the first error in ascending provider order, and e is that
\* first error; when all outcomes are errors and one is not consistent with the
\* first, the result is InconsistentResults carrying the original ballot.
C4_ConsistentErrorIff ==
    Reduced("all_ok") =>
        LET b == ballot.val
            first_error == b.results[Min(ErrProviders(b))]
            AllConsistent ==
                /\ AllErrBallot(b)
                /\ \A p \in DOMAIN b.results :
                       are_errors_consistent(first_error, b.results[p])
        IN  /\ IsConsistentError(result.val) <=> AllConsistent
            /\ IsConsistentError(result.val) =>
                   result.val = Err(ConsistentError(first_error.error))
            /\ (AllErrBallot(b) /\ ~AllConsistent) =>
                   result.val = Err(InconsistentResults(b))

\* three timeouts with different details collapse into the first one
C4_Witness ==
    /\ Reduced("all_ok")
    /\ Cardinality(DOMAIN ballot.val.results) = 3
    /\ ballot.val.results[1] = Err(HttpOutcallError("Timeout", "b"))
    /\ ballot.val.results[2] = Err(HttpOutcallError("Timeout", "a"))
    /\ ballot.val.results[3] = Err(HttpOutcallError("Timeout", "a"))
    /\ result.val = Err(ConsistentError(HttpOutcallError("Timeout", "b")))

\* C5: sequential_call_until_ok calls the providers one at a time in the
\* configured order, each call starting only after the previous one returned
\* an error; it returns the value of the first provider that succeeds and
\* calls no provider after it; if every provider fails it returns the error of
\* the last provider.
C5_SequentialUntilOk ==
    (method = "eth_send_raw_transaction" /\ providers # <<>>) =>
        /\ calls = [i \in 1..Len(calls) |-> i]
        /\ Len(calls) <= Len(providers)
        /\ Len(returned) <= Len(calls)
        /\ Len(calls) <= Len(returned) + 1
        /\ \A i \in 1..(Len(calls) - 1) : returned[i].tag = "Err"
        /\ \A i \in DOMAIN returned :
               returned[i].tag = "Ok" =>
                   /\ pc = "done"
                   /\ i = Len(calls)
                   /\ result = Some(returned[i])
        /\ (pc = "done" /\ \A i \in DOMAIN returned : returned[i].tag = "Err") =>
               /\ Len(returned) = Len(providers)
               /\ result = Some(returned[Len(providers)])

\* [A:err, B:ok(v), C] returns ok(v) and C is never called
C5_Witness ==
    /\ method = "eth_send_raw_transaction"
    /\ pc = "done"
    /\ Len(providers) = 3
    /\ calls = <<1, 2>>
    /\ Len(returned) = 2
    /\ returned[1].tag = "Err"
    /\ result = Some(Ok(Value(100, 1)))

Range(seq) == {seq[i] : i \in DOMAIN seq}
CallsTo(p) == Cardinality({i \in DOMAIN calls : providers[calls[i]] = p})
LastIndexOf(p) == Max({i \in DOMAIN providers : providers[i] = p})
ParallelDone == pc = "done" /\ method \in ParallelMethods /\ providers # <<>>

\* C6: parallel_call invokes the adapter exactly once for every
\* configured provider, completes only after all calls completed, and the
\* ballot maps every configured provider to that provider's own outcome.
C6_Original ==
    ParallelDone =>
        /\ ballot.some
        /\ \A i \in DOMAIN fut : fut[i].some
        /\ \A p \in Range(providers) : CallsTo(p) = 1
        /\ DOMAIN ballot.val.results = Range(providers)
        /\ \A i \in DOMAIN providers :
               ballot.val.results[providers[i]] = fut[i].val

\* What parallel_call does on every list, duplicates included: one call per
\* entry of the configured list, completion only after all of those calls
\* completed, and a ballot with one entry per distinct configured provider,
\* holding the outcome of the call made for its last occurrence in the list,
\* whatever the completion order; when no provider is listed twice this is
\* the outcome of the provider's only call, as C6 states.
C6_ParallelCall ==
    /\ (method \in ParallelMethods /\ pc \in {"join", "done"} /\ providers # <<>>) =>
          /\ calls = [i \in 1..Len(providers) |-> i]
          /\ DOMAIN fut = DOMAIN providers
          /\ (ballot.some \/ result.some) => \A i \in DOMAIN fut : fut[i].some
    /\ ParallelDone =>
          /\ ballot.some
          /\ DOMAIN ballot.val.results = Range(providers)
          /\ \A p \in Range(providers) :
                 ballot.val.results[p] = fut[LastIndexOf(p)].val
          /\ (\A p \in Range(providers) : CallsTo(p) = 1) =>
                 \A i \in DOMAIN providers :
                     ballot.val.results[providers[i]] = fut[i].val

\* a provider listed twice, calls completing out of submission order
C6_Witness ==
    /\ ParallelDone
    /\ out_of_order
    /\ providers = <<2, 1, 2>>
    /\ fut[1].val # fut[3].val
    /\ ballot.some
    /\ ballot.val.results[2] = fut[3].val
    /\ ballot.val.results[1] = fut[2].val

\* C7: every MultiCallResults at an observable point is non-empty: the ballot
\* parallel_call builds (which exists once a parallel operation has returned)
\* and the payload of every InconsistentResults a reducer returns.
C7_NonEmpty ==
    /\ ballot.some => DOMAIN ballot.val.results # {}
    /\ ParallelDone => ballot.some
    /\ (pc = "done" /\ reducer # "none" /\ result.some /\ IsInconsistent(result.val))
          => DOMAIN Payload(result.val) # {}

\* a payload that is a proper, non-empty part of the ballot
C7_Witness ==
    /\ ParallelDone
    /\ ballot.some
    /\ reducer = "reduce_with_strict_majority_by_key"
    /\ IsInconsistent(result.val)
    /\ DOMAIN Payload(result.val) # {}
    /\ DOMAIN Payload(result.val) # DOMAIN ballot.val.results

\* providers of an all-ok ballot whose value differs from the baseline
Baseline(b) == Min(DOMAIN b.results)
Dissenters(b) == {p \in DOMAIN b.results : b.results[p] # b.results[Baseline(b)]}

\* C8: on an all-ok ballot in which some value differs from the baseline,
\* reduce_with_equality returns InconsistentResults whose payload holds exactly
\* the providers differing from the baseline plus the baseline provider, each
\* with its original ok outcome.
C8_EqualityPayload ==
    (/\ Reduced("reduce_with_equality")
     /\ AllOkBallot(ballot.val)
     /\ Dissenters(ballot.val) # {})
        => result.val = Err(InconsistentResults(MultiCallResults(
               [p \in Dissenters(ballot.val) \cup {Baseline(ballot.val)} |->
                   ballot.val.results[p]])))

\* a provider agreeing with the baseline is left out of the payload
C8_Witness ==
    /\ Reduced("reduce_with_equality")
    /\ AllOkBallot(ballot.val)
    /\ Dissenters(ballot.val) # {}
    /\ \E p \in DOMAIN ballot.val.results :
           /\ p # Baseline(ballot.val)
           /\ p \notin Dissenters(ballot.val)
           /\ IsInconsistent(result.val)
           /\ p \notin DOMAIN Payload(result.val)

\* scenario S2 with A, B, C = 1, 2, 3 and two distinct values for 7 and 8
S2Ballot ==
    MultiCallResults(<<Ok(Value(100, 1)), Ok(Value(100, 2)), Ok(Value(100, 1))>>)

\* C9 (as stated): {A:ok(7), B:ok(8), C:ok(7)} is reduced by
\* reduce_with_equality to InconsistentResults of all three providers.
C9_Original ==
    (Reduced("reduce_with_equality") /\ ballot.val = S2Ballot)
        => result.val = Err(InconsistentResults(S2Ballot))

\* C9 (amended): {A:ok(7), B:ok(8), C:ok(7)} is reduced by
\* reduce_with_equality to InconsistentResults({A:ok(7), B:ok(8)}): the
\* baseline A and the dissenter B, without C whose value equals the baseline.
C9_S2Payload ==
    (Reduced("reduce_with_equality") /\ ballot.val = S2Ballot)
        => result.val = Err(InconsistentResults(MultiCallResults(
               [p \in {1, 2} |-> S2Ballot.results[p]])))

C9_Witness ==
    /\ Reduced("reduce_with_equality")
    /\ ballot.val = S2Ballot
    /\ IsInconsistent(result.val)
    /\ 3 \notin DOMAIN Payload(result.val)

\* providers of an all-ok ballot that have a smaller provider with the same
\* key and a different value
Conflicting(b) ==
    {p \in DOMAIN b.results :
        \E q \in DOMAIN b.results :
            /\ q < p
            /\ b.results[q].value.oldest_block = b.results[p].value.oldest_block
            /\ b.results[q] # b.results[p]}

\* C10 (as stated): when two values share a key but are not equal,
\* reduce_with_strict_majority_by_key returns InconsistentResults whose payload
\* is that key's whole group, each provider with its ok outcome.
C10_Original ==
    (/\ Reduced("reduce_with_strict_majority_by_key")
     /\ AllOkBallot(ballot.val)
     /\ Conflicting(ballot.val) # {})
        => /\ IsInconsistent(result.val)
           /\ \E p \in Conflicting(ballot.val) :
                  Payload(result.val) =
                      [q \in KeyGroup(ballot.val,
                                      ballot.val.results[p].value.oldest_block) |->
                          ballot.val.results[q]]

\* C10 (amended): when two values share a key but are not equal,
\* reduce_with_strict_majority_by_key returns InconsistentResults (even if
\* another key has a strict majority) and the payload holds the providers of
\* that key's group up to and including the first provider, in ascending
\* order, whose value differs from an earlier one of the group, each with its
\* ok outcome; later providers of the group are not in the payload.
C10_AmbiguousKeyPayload ==
    (/\ Reduced("reduce_with_strict_majority_by_key")
     /\ AllOkBallot(ballot.val)
     /\ Conflicting(ballot.val) # {})
        => LET b == ballot.val
               p == Min(Conflicting(b))
               group == {q \in KeyGroup(b, b.results[p].value.oldest_block) : q <= p}
           IN  result.val = Err(InconsistentResults(MultiCallResults(
                   [q \in group |-> b.results[q]])))

\* a later provider of the ambiguous group is left out, and another key has
\* more votes than any value of the ambiguous one
C10_Witness ==
    /\ Reduced("reduce_with_strict_majority_by_key")
    /\ AllOkBallot(ballot.val)
    /\ Conflicting(ballot.val) # {}
    /\ IsInconsistent(result.val)
    /\ \E p \in Conflicting(ballot.val) :
           /\ p \notin DOMAIN Payload(result.val)
           /\ KeyGroup(ballot.val, ballot.val.results[p].value.oldest_block)
                  \cap DOMAIN Payload(result.val) # {}

\* C11: EthRpcClient::new returns ProviderNotFound for an empty provider list
\* and otherwise a client with a non-empty provider list; on such a client,
\* whatever the providers return, no operation ends in one of the "BUG:"
\* panics, and each reducer ends in exactly one of an ok value,
\* ConsistentError or InconsistentResults.
C11_Total ==
    /\ (method \in Methods /\ pc # "new") =>
          IF source.some /\ source.val = <<>>
          THEN /\ pc = "done"
               /\ providers = <<>>
               /\ result = Some(Err(ProviderNotFound))
          ELSE /\ providers # <<>>
               /\ result # Some(Err(ProviderNotFound))
    /\ result.some => ~IsPanic(result.val)
    /\ (pc = "done" /\ reducer # "none") =>
          /\ result.some
          /\ Cardinality({t \in {"Ok", "ConsistentError", "InconsistentResults"} :
                 \/ t = "Ok" /\ result.val.tag = "Ok"
                 \/ t # "Ok" /\ result.val.tag = "Err" /\ result.val.error.tag = t}) = 1

\* every provider of a three-provider client failed: the sequential dispatch
\* returns the remembered error, it does not panic
C11_Witness ==
    /\ method = "eth_send_raw_transaction"
    /\ pc = "done"
    /\ Len(providers) = 3
    /\ Len(returned) = 3
    /\ result.some
    /\ result.val.tag = "Err"
    /\ ~IsPanic(result.val)

====
